---------------------------- MODULE Spec2Model ----------------------------
(***************************************************************************)
(* Gym Tracker API (Express + node-postgres).                              *)
(*                                                                         *)
(* Every route handler is an async function: a chain of awaited            *)
(* pool.query calls.  pool.query runs one statement in its own implicit    *)
(* transaction (autocommit), so a statement is atomic and the handler is   *)
(* not: between two awaits of one handler the statements of any other      *)
(* in-flight handler may run.  The model therefore has one action per      *)
(* awaited statement, and a handler answering with a single statement is   *)
(* one action.                                                             *)
(*                                                                         *)
(* Columns no handler ever reads back (names, descriptions, messages,      *)
(* user_progress.updated_at, created_at) are left out of the rows.         *)
(*                                                                         *)
(* Spec      the lifecycle routes (workouts, assign-program, mark-workout, *)
(*           comments) over a store whose statements do not throw          *)
(* SpecFail  the same routes over a store in which any statement may throw *)
(* SpecAdmin login and the administration routes (role, password, toggle)  *)
(* SpecAbsent the lifecycle routes, with assign-program requests naming a  *)
(*           user or a program that has no row                             *)
(* SpecAudit calls of logAudit, whose INSERT may throw                     *)
(***************************************************************************)
EXTENDS Integers, FiniteSets, Sequences, Bags, TLC

(* ------------------------------ bounds -------------------------------- *)
\* rows the workouts table may hold
MaxWorkouts == 1
\* handlers that may be between two awaits at the same time
MaxInflight == 2
\* values NOW() may take: 1..MaxClock
MaxClock == 2
\* session tokens that may be alive at the same time
MaxTokens == 1
\* rows the audit_logs table may hold
MaxAudit == 2

(* ----------------------------- constants ------------------------------ *)
NULL == 0
\* a body field that is absent (undefined, or NaN after Number())
MISSING == 0

Roles == {"client", "coach", "super_admin"}
\* rows of the programs table; no handler under study inserts or deletes them
ProgramIds == {1, 2}
\* rows of the users table
UserIds == {1, 2}
\* ids a request body may carry for a workout, whether or not the row exists
WorkoutIds == 1..MaxWorkouts

VARIABLES
    users,          \* users table: id -> [role, active, password]
    workouts,       \* workouts table: sequence, index = serial id, value = program_id
    user_programs,  \* bag of rows [user_id, program_id, completed_at]
    user_progress,  \* bag of rows [user_id, workout_id, status]
    comments,       \* bag of rows [user_id, program_id]
    audit_logs,     \* bag of rows [actor_id, action, target_id]
    tokens,         \* the session tokens alive: payloads [user_id, role]
    inflight,       \* bag of handlers suspended at an await: [op, pc, user_id, program_id, workout_id]
    response        \* the HTTP response written by the last step, NoResponse if it wrote
                    \* none; after a call of logAudit, how the call ended

vars == <<users, workouts, user_programs, user_progress, comments, audit_logs,
          tokens, inflight, response>>

tables == <<users, workouts, user_programs, user_progress, comments, audit_logs>>

\* the tables and handlers of the assignment and progress lifecycle
lifecycle == <<workouts, user_programs, user_progress, comments, inflight>>

(* ------------------------------ helpers ------------------------------- *)
Rows(table) == BagToSet(table)

InsertRow(table, row) == table (+) SetToBag({row})

InsertRows(table, rows) == table (+) SetToBag(rows)

\* UPDATE table SET column = value WHERE ...: applied to every row of `matching`
UpdateRows(table, matching, column, value) ==
    BagOfAll(LAMBDA row : IF row \in matching THEN [row EXCEPT ![column] = value] ELSE row,
             table)

NoResponse == [op |-> "none", status |-> 0, error |-> "", user_id |-> 0,
               program_id |-> 0, workout_id |-> 0]

\* res.status(status).json(...) of the handler r: the status, the error text and
\* the ids of the request it answers
Respond(r, status, error) ==
    [op |-> r.op, status |-> status, error |-> error, user_id |-> r.user_id,
     program_id |-> r.program_id, workout_id |-> r.workout_id]

Request(op, pc, user_id, program_id, workout_id) ==
    [op |-> op, pc |-> pc, user_id |-> user_id, program_id |-> program_id,
     workout_id |-> workout_id]

\* a request rejected by the validation of its body: it names no row
Invalid(op) == Request(op, "", MISSING, MISSING, MISSING)

\* the handler r reaches its next await
Await(r, pc) == inflight' = (inflight (-) SetToBag({r})) (+) SetToBag({[r EXCEPT !.pc = pc]})

\* the handler r returns
Return(r) == inflight' = inflight (-) SetToBag({r})

CanStart == BagCardinality(inflight) < MaxInflight

\* the users whose role is client
ClientIds == {u \in UserIds : users[u].role = "client"}

\* SELECT id FROM workouts WHERE program_id = p
WorkoutsOf(p) == {w \in 1..Len(workouts) : workouts[w] = p}


\* SELECT program_id FROM workouts WHERE id = w
WorkoutRows(w) == {id \in 1..Len(workouts) : id = w}

(* ---------------------- schema (storage collaborator) ----------------- *)
\* column defaults of rows inserted without the column
DefaultStatus == "pending"

DefaultCompletedAt == NULL

\* mutant: the table without its uniqueness constraint
UniqueAssignmentOff(row) == TRUE

\* UNIQUE (user_id, program_id) on user_programs
UniqueAssignment(row) ==
    \A old \in Rows(user_programs) :
        ~(old.user_id = row.user_id /\ old.program_id = row.program_id)

\* UNIQUE (user_id, workout_id) on user_progress
UniqueProgress(row) ==
    \A old \in Rows(user_progress) :
        ~(old.user_id = row.user_id /\ old.workout_id = row.workout_id)

\* mutant: the table without its uniqueness constraint
UniqueFeedbackOff(row) == TRUE

\* UNIQUE (user_id, program_id) on comments
UniqueFeedback(row) ==
    \A old \in Rows(comments) :
        ~(old.user_id = row.user_id /\ old.program_id = row.program_id)

\* REFERENCES users (id) and programs (id) on user_programs: the schema may or may
\* not declare them, so an insert naming an absent row may be refused or accepted
ForeignKeys == BOOLEAN

ReferencesHold(row) == row.user_id \in DOMAIN users /\ row.program_id \in ProgramIds

\* mutant: a clock that may also yield the null timestamp
NowOrNull == NULL..MaxClock

\* NOW(): the store's clock never runs backwards
Now == {t \in 1..MaxClock : \A row \in Rows(user_programs) : row.completed_at <= t}

(* ------------------------------ queries ------------------------------- *)
\* mutant: the two parameters bound in the wrong order
AssignmentRowsSwapped(user_id, program_id) ==
    {row \in Rows(user_programs) : row.user_id = program_id /\ row.program_id = user_id}

\* SELECT id FROM user_programs WHERE user_id = $1 AND program_id = $2
AssignmentRows(user_id, program_id) ==
    {row \in Rows(user_programs) : row.user_id = user_id /\ row.program_id = program_id}

\* WHERE user_id = $1 AND workout_id = $2 of the status update
ProgressRows(user_id, workout_id) ==
    {row \in Rows(user_progress) : row.user_id = user_id /\ row.workout_id = workout_id}

\* SELECT 1 FROM user_progress up JOIN workouts w ON up.workout_id = w.id
\* WHERE up.user_id = $1 AND w.program_id = $2 AND up.status <> 'done'
PendingRows(user_id, program_id) ==
    {row \in Rows(user_progress) :
        /\ row.workout_id \in WorkoutsOf(program_id)
        /\ row.user_id = user_id
        /\ row.status # "done"}

\* mutant: the workout id taken for the program id
ProgramOfIsWorkoutId(workout_id) == workout_id

\* programRes.rows[0].program_id
ProgramOf(workout_id) == workouts[workout_id]

\* mutant: the stamp without its program_id condition
CompletionRowsAnyProgram(user_id, program_id) ==
    {row \in Rows(user_programs) : row.user_id = user_id}

\* WHERE user_id = $1 AND program_id = $2 of the completion stamp
CompletionRows(user_id, program_id) ==
    {row \in Rows(user_programs) : row.user_id = user_id /\ row.program_id = program_id}

\* mutant: the completion check left out
CompletedAlways(row) == TRUE

\* assignment.rows[0].completed_at is truthy
Completed(row) == row.completed_at # NULL

\* mutant: the two parameters bound in the wrong order
CommentRowsSwapped(user_id, program_id) ==
    {row \in Rows(comments) : row.user_id = program_id /\ row.program_id = user_id}

\* SELECT 1 FROM comments WHERE user_id = $1 AND program_id = $2
CommentRows(user_id, program_id) ==
    {row \in Rows(comments) : row.user_id = user_id /\ row.program_id = program_id}

\* mutant: the select filters on the workout id instead of the program id
InitialProgressById(user_id, program_id) ==
    {[user_id |-> user_id, workout_id |-> w, status |-> DefaultStatus] :
        w \in WorkoutRows(program_id)}

\* INSERT INTO user_progress (user_id, workout_id) SELECT $1, id FROM workouts WHERE program_id = $2
InitialProgress(user_id, program_id) ==
    {[user_id |-> user_id, workout_id |-> w, status |-> DefaultStatus] :
        w \in WorkoutsOf(program_id)}

(* --------------------------- POST /api/workouts ------------------------ *)
CreateWorkout(program_id) ==
    /\ Len(workouts) < MaxWorkouts
    /\ IF program_id = MISSING
       THEN /\ response' = Respond(Invalid("workout"), 400, "Missing required fields")
            /\ UNCHANGED workouts
       ELSE /\ workouts' = Append(workouts, program_id)
            /\ response' = Respond(Request("workout", "", 0, program_id, Len(workouts) + 1),
                                   201, "")
    /\ UNCHANGED <<users, user_programs, user_progress, comments, audit_logs, tokens,
                   inflight>>

(* ------------------------ POST /api/assign-program --------------------- *)
\* validation and the exists check, up to the await of the assignment insert
AssignProgram(user_id, program_id) ==
    LET r == Request("assign", "insert", user_id, program_id, 0) IN
    /\ UNCHANGED <<tables, tokens>>
    /\ IF user_id = MISSING \/ program_id = MISSING
       THEN /\ response' = Respond(Invalid("assign"), 400, "Missing or invalid user/program")
            /\ UNCHANGED inflight
       ELSE IF AssignmentRows(user_id, program_id) # {}
       THEN /\ response' = Respond(r, 409, "Program already assigned")
            /\ UNCHANGED inflight
       ELSE /\ CanStart
            /\ inflight' = inflight (+) SetToBag({r})
            /\ response' = NoResponse

\* INSERT INTO user_programs (user_id, program_id)
AssignInsert(r) ==
    LET row == [user_id |-> r.user_id, program_id |-> r.program_id,
                completed_at |-> DefaultCompletedAt] IN
    /\ BagIn(r, inflight) /\ r.op = "assign" /\ r.pc = "insert"
    /\ \E enforced \in ForeignKeys :
          IF UniqueAssignment(row) /\ (enforced => ReferencesHold(row))
          THEN /\ user_programs' = InsertRow(user_programs, row)
               /\ Await(r, "bulk")
               /\ response' = NoResponse
          ELSE /\ response' = Respond(r, 500, "Internal server error")
               /\ Return(r)
               /\ UNCHANGED user_programs
    /\ UNCHANGED <<users, workouts, user_progress, comments, audit_logs, tokens>>

\* the bulk progress insert and the 201 response
AssignBulk(r) ==
    LET rows == InitialProgress(r.user_id, r.program_id) IN
    /\ BagIn(r, inflight) /\ r.op = "assign" /\ r.pc = "bulk"
    /\ IF \A row \in rows : UniqueProgress(row)
       THEN /\ user_progress' = InsertRows(user_progress, rows)
            /\ response' = Respond(r, 201, "")
       ELSE /\ response' = Respond(r, 500, "Internal server error")
            /\ UNCHANGED user_progress
    /\ Return(r)
    /\ UNCHANGED <<users, workouts, user_programs, comments, audit_logs, tokens>>

(* ------------------------- PATCH /api/mark-workout --------------------- *)
\* validation and the status update, up to the await of the program lookup
MarkWorkout(user_id, workout_id) ==
    LET r == Request("mark", "lookup", user_id, 0, workout_id)
        matching == ProgressRows(user_id, workout_id) IN
    /\ UNCHANGED <<users, workouts, user_programs, comments, audit_logs, tokens>>
    /\ IF user_id = MISSING \/ workout_id = MISSING
       THEN /\ response' = Respond(Invalid("mark"), 400, "Missing required fields")
            /\ UNCHANGED <<user_progress, inflight>>
       ELSE IF matching = {}
       THEN /\ response' = Respond(r, 404, "Progress entry not found")
            /\ UNCHANGED <<user_progress, inflight>>
       ELSE /\ CanStart
            /\ user_progress' = UpdateRows(user_progress, matching, "status", "done")
            /\ inflight' = inflight (+) SetToBag({r})
            /\ response' = NoResponse

\* SELECT program_id FROM workouts WHERE id = $1
MarkLookup(r) ==
    /\ BagIn(r, inflight) /\ r.op = "mark" /\ r.pc = "lookup"
    /\ UNCHANGED <<tables, tokens>>
    /\ IF WorkoutRows(r.workout_id) = {}
       THEN /\ response' = Respond(r, 404, "Workout not found")
            /\ Return(r)
       ELSE /\ inflight' = (inflight (-) SetToBag({r})) (+)
                           SetToBag({[r EXCEPT !.pc = "pending",
                                               !.program_id = ProgramOf(r.workout_id)]})
            /\ response' = NoResponse

\* the pending query
MarkPending(r) ==
    /\ BagIn(r, inflight) /\ r.op = "mark" /\ r.pc = "pending"
    /\ UNCHANGED <<tables, tokens>>
    /\ IF PendingRows(r.user_id, r.program_id) = {}
       THEN /\ Await(r, "stamp")
            /\ response' = NoResponse
       ELSE /\ response' = Respond(r, 200, "")
            /\ Return(r)

\* UPDATE user_programs SET completed_at = NOW() WHERE user_id = $1 AND program_id = $2
MarkStamp(r) ==
    /\ BagIn(r, inflight) /\ r.op = "mark" /\ r.pc = "stamp"
    /\ \E t \in Now :
          user_programs' = UpdateRows(user_programs,
                                      CompletionRows(r.user_id, r.program_id),
                                      "completed_at", t)
    /\ response' = Respond(r, 200, "")
    /\ Return(r)
    /\ UNCHANGED <<users, workouts, user_progress, comments, audit_logs, tokens>>

(* --------------------------- POST /api/comments ------------------------ *)
\* validation and the assignment select, up to the await of the duplicate check
SubmitComment(user_id, program_id, message) ==
    LET r == Request("comment", "exists", user_id, program_id, 0)
        assignment == AssignmentRows(user_id, program_id) IN
    /\ UNCHANGED <<tables, tokens>>
    /\ IF user_id = MISSING \/ program_id = MISSING \/ message = MISSING
       THEN /\ response' = Respond(Invalid("comment"), 400, "Missing required fields")
            /\ UNCHANGED inflight
       ELSE IF assignment = {}
       THEN /\ response' = Respond(r, 400, "Program not assigned to this user")
            /\ UNCHANGED inflight
       ELSE \E first \in assignment :
              IF ~Completed(first)
              THEN /\ response' = Respond(r, 400, "Program not completed yet")
                   /\ UNCHANGED inflight
              ELSE /\ CanStart
                   /\ inflight' = inflight (+) SetToBag({r})
                   /\ response' = NoResponse

\* SELECT 1 FROM comments WHERE user_id = $1 AND program_id = $2
CommentExists(r) ==
    /\ BagIn(r, inflight) /\ r.op = "comment" /\ r.pc = "exists"
    /\ UNCHANGED <<tables, tokens>>
    /\ IF CommentRows(r.user_id, r.program_id) # {}
       THEN /\ response' = Respond(r, 400, "Feedback already submitted")
            /\ Return(r)
       ELSE /\ Await(r, "insert")
            /\ response' = NoResponse

\* INSERT INTO comments (user_id, program_id, message) and the 201 response
CommentInsert(r) ==
    LET row == [user_id |-> r.user_id, program_id |-> r.program_id] IN
    /\ BagIn(r, inflight) /\ r.op = "comment" /\ r.pc = "insert"
    /\ IF UniqueFeedback(row)
       THEN /\ comments' = InsertRow(comments, row)
            /\ response' = Respond(r, 201, "")
       ELSE /\ response' = Respond(r, 500, "Internal server error")
            /\ UNCHANGED comments
    /\ Return(r)
    /\ UNCHANGED <<users, workouts, user_programs, user_progress, audit_logs, tokens>>

(* ------------------------- storage failures --------------------------- *)
\* the statement the handler r awaits throws: the catch block answers 500
QueryFails(r) ==
    /\ BagIn(r, inflight)
    /\ response' = Respond(r, 500, "Internal server error")
    /\ Return(r)
    /\ UNCHANGED <<tables, tokens>>

\* the first statement of a handler throws, after its validation passed
FirstQueryFails(op, user_id, program_id, workout_id) ==
    /\ user_id # MISSING
    /\ response' = Respond(Request(op, "", user_id, program_id, workout_id), 500,
                           "Internal server error")
    /\ UNCHANGED <<tables, tokens, inflight>>

(* ------------------------- authorization gate ------------------------- *)
NoToken == [user_id |-> 0, role |-> "none"]

\* authMiddleware: req.user is the payload of a token the server minted
authMiddleware(token) == token \in tokens

\* mutant: every role but client passes
authAdminStaff(user) == user.role # "client"

\* authAdmin: req.user?.role !== "super_admin" answers 403
authAdmin(user) == user.role = "super_admin"

\* a password is modelled by its length; the hash keeps the password apart from others
Hash(password) == <<"bcrypt", password>>

Compare(password, hashed) == hashed = Hash(password)

MinPasswordLength == 6

\* the passwords a body may carry; MISSING is undefined or the empty string
Passwords == {MISSING, MinPasswordLength - 1, MinPasswordLength, MinPasswordLength + 2}

\* the ids a request may name for a user: the rows of users and an id without a row
TargetIds == UserIds \cup {Cardinality(UserIds) + 1}

\* the answer of a handler stopped by the middleware chain, NoResponse if it passes
Gate(r, token) ==
    IF ~authMiddleware(token) THEN Respond(r, 401, "Unauthorized")
    ELSE IF ~authAdmin(token) THEN Respond(r, 403, "Access restricted")
    ELSE NoResponse

(* ------------------------------ logAudit ------------------------------ *)
\* the action labels of the administration operations
AuditActions == {"role_change", "password_reset", "activation_toggle"}

\* INSERT INTO audit_logs (actor_id, action, target_id, details)
logAudit(actorId, action, targetId) ==
    InsertRow(audit_logs, [actor_id |-> actorId, action |-> action, target_id |-> targetId])

\* mutant: the function without its try/catch
Rethrown(err) == err

\* catch (err) { console.error(...) }: what leaves the function is no error
Caught(err) == ""

\* a call of the async function logAudit, by any caller; fails: its INSERT throws.
\* response holds how the call ended: error is the error that left the function,
\* "" when it returned normally
LogAudit(actorId, action, targetId, fails) ==
    /\ BagCardinality(audit_logs) < MaxAudit
    /\ audit_logs' = IF fails THEN audit_logs ELSE logAudit(actorId, action, targetId)
    /\ response' = Respond(Request("logAudit", "", targetId, 0, 0), 0,
                           IF fails THEN Caught("insert failed") ELSE "")
    /\ UNCHANGED <<users, workouts, user_programs, user_progress, comments, tokens,
                   inflight>>

(* ----------------------- PATCH /api/users/:id/role -------------------- *)
\* mutant: a role outside the enum let through
allowedAndAdmin == {"client", "coach", "super_admin", "admin"}

\* const allowed = ["client", "coach", "super_admin"]
allowed == {"client", "coach", "super_admin"}

ChangeUserRole(token, userId, role) ==
    LET r == Request("role", "", userId, 0, 0) IN
    /\ UNCHANGED <<workouts, user_programs, user_progress, comments, audit_logs, tokens,
                   inflight>>
    /\ IF Gate(r, token) # NoResponse
       THEN response' = Gate(r, token) /\ UNCHANGED users
       ELSE IF role = ""
       THEN response' = Respond(r, 400, "Role is required") /\ UNCHANGED users
       ELSE IF role \notin allowed
       THEN response' = Respond(r, 400, "Invalid role") /\ UNCHANGED users
       ELSE /\ users' = [id \in DOMAIN users |->
                            IF id = userId THEN [users[id] EXCEPT !.role = role]
                            ELSE users[id]]
            /\ response' = Respond(r, 200, "Role updated")

(* --------------------- PATCH /api/users/:id/password ------------------ *)
ResetPassword(token, userId, new_password) ==
    LET r == Request("password", "", userId, 0, 0) IN
    /\ UNCHANGED <<workouts, user_programs, user_progress, comments, audit_logs, tokens,
                   inflight>>
    /\ IF Gate(r, token) # NoResponse
       THEN response' = Gate(r, token) /\ UNCHANGED users
       ELSE IF new_password = MISSING \/ new_password < MinPasswordLength
       THEN /\ response' = Respond(r, 400, "Password must be at least 6 characters")
            /\ UNCHANGED users
       ELSE /\ users' = [id \in DOMAIN users |->
                            IF id = userId
                            THEN [users[id] EXCEPT !.password = Hash(new_password)]
                            ELSE users[id]]
            /\ response' = Respond(r, 200, "Password reset successfully")

(* ------------------------ PATCH /api/toggle-user ---------------------- *)
\* hasActive: the body carries an active flag (active !== undefined)
ToggleUser(token, user_id, hasActive, active) ==
    LET r == Request("toggle", "", user_id, 0, 0) IN
    /\ UNCHANGED <<workouts, user_programs, user_progress, comments, audit_logs, tokens,
                   inflight>>
    /\ IF Gate(r, token) # NoResponse
       THEN response' = Gate(r, token) /\ UNCHANGED users
       ELSE IF user_id = MISSING \/ ~hasActive
       THEN /\ response' = Respond(r, 400, "Missing user_id or active flag")
            /\ UNCHANGED users
       ELSE IF user_id \notin DOMAIN users
       THEN response' = Respond(r, 404, "User not found") /\ UNCHANGED users
       ELSE /\ users' = [users EXCEPT ![user_id].active = active]
            /\ response' = Respond(r, 200, "User status updated")

(* ----------------------------- POST /api/login ------------------------ *)
\* mutant: the inactive check left out
DeactivatedNever(user) == FALSE

\* user.active === false || user.active === "f"
Deactivated(user) == user.active = FALSE

\* The handler reads the store once (the SELECT); bcrypt.compare, the inactive
\* check and jwt.sign work on the row that SELECT returned, so the handler is one
\* action taken at its SELECT.
\* email: the id of the row the email or name selects, an id without a row, or MISSING
Login(email, password) ==
    LET r == Request("login", "", email, 0, 0) IN
    /\ UNCHANGED <<tables, inflight>>
    /\ IF email = MISSING \/ password = MISSING
       THEN response' = Respond(r, 400, "Email and password required") /\ UNCHANGED tokens
       ELSE IF email \notin DOMAIN users
       THEN response' = Respond(r, 401, "Invalid credentials") /\ UNCHANGED tokens
       ELSE IF ~Compare(password, users[email].password)
       THEN response' = Respond(r, 401, "Invalid credentials") /\ UNCHANGED tokens
       ELSE IF Deactivated(users[email])
       THEN response' = Respond(r, 403, "Account is deactivated") /\ UNCHANGED tokens
       ELSE /\ tokens' = tokens \cup {[user_id |-> email, role |-> users[email].role]}
            /\ Cardinality(tokens') <= MaxTokens
            /\ response' = Respond(r, 200, "")

\* expiresIn: "2h": a token stops being accepted
TokenExpires(token) ==
    /\ token \in tokens
    /\ tokens' = tokens \ {token}
    /\ response' = NoResponse
    /\ UNCHANGED <<tables, inflight>>

(* --------------------------- specification ---------------------------- *)
Init ==
    /\ users = [id \in UserIds |->
                   [role |-> IF id = 1 THEN "super_admin" ELSE "client", active |-> TRUE,
                    password |-> Hash(MinPasswordLength + 2)]]
    /\ workouts = << >>
    /\ user_programs = EmptyBag
    /\ user_progress = EmptyBag
    /\ comments = EmptyBag
    /\ audit_logs = EmptyBag
    /\ tokens = {}
    /\ inflight = EmptyBag
    /\ response = NoResponse

\* the handlers of the program assignment and progress lifecycle
Next ==
    \/ \E p \in ProgramIds \cup {MISSING} : CreateWorkout(p)
    \/ \E u \in ClientIds \cup {MISSING}, p \in ProgramIds \cup {MISSING} : AssignProgram(u, p)
    \/ \E r \in BagToSet(inflight) : AssignInsert(r)
    \/ \E r \in BagToSet(inflight) : AssignBulk(r)
    \/ \E u \in ClientIds \cup {MISSING}, w \in WorkoutIds \cup {MISSING} : MarkWorkout(u, w)
    \/ \E r \in BagToSet(inflight) : MarkLookup(r)
    \/ \E r \in BagToSet(inflight) : MarkPending(r)
    \/ \E r \in BagToSet(inflight) : MarkStamp(r)
    \/ \E u \in ClientIds \cup {MISSING}, p \in ProgramIds \cup {MISSING}, m \in {MISSING, 1} :
          SubmitComment(u, p, m)
    \/ \E r \in BagToSet(inflight) : CommentExists(r)
    \/ \E r \in BagToSet(inflight) : CommentInsert(r)

Spec == Init /\ [][Next]_vars

\* the lifecycle handlers over a store whose statements may throw
NextFail ==
    \/ Next
    \/ \E r \in BagToSet(inflight) : QueryFails(r)
    \/ \E op \in {"assign", "mark", "comment"}, u \in ClientIds, p \in ProgramIds,
          w \in WorkoutIds :
          FirstQueryFails(op, u, IF op = "mark" THEN 0 ELSE p, IF op = "mark" THEN w ELSE 0)

SpecFail == Init /\ [][NextFail]_vars

\* the session and administration handlers
NextAdmin ==
    \/ \E u \in TargetIds \cup {MISSING}, pw \in Passwords : Login(u, pw)
    \/ \E t \in tokens : TokenExpires(t)
    \/ \E t \in tokens \cup {NoToken}, u \in TargetIds,
          role \in Roles \cup {"", "admin"} : ChangeUserRole(t, u, role)
    \/ \E t \in tokens \cup {NoToken}, u \in TargetIds, pw \in Passwords :
          ResetPassword(t, u, pw)
    \/ \E t \in tokens \cup {NoToken}, u \in TargetIds \cup {MISSING},
          hasActive \in BOOLEAN, active \in BOOLEAN : ToggleUser(t, u, hasActive, active)

SpecAdmin == Init /\ [][NextAdmin]_vars

\* the ids a request may name for a program: the rows of programs and an id without a row
ProgramTargets == ProgramIds \cup {Cardinality(ProgramIds) + 1}

\* the lifecycle handlers, with assign-program requests that name a row that does not exist
NextAbsent ==
    \/ Next
    \/ \E u \in ClientIds \cup (TargetIds \ UserIds), p \in ProgramTargets :
          /\ u \notin UserIds \/ p \notin ProgramIds
          /\ AssignProgram(u, p)

SpecAbsent == Init /\ [][NextAbsent]_vars

\* calls of logAudit, with an INSERT that succeeds or throws
NextAudit ==
    \E actorId \in UserIds, action \in AuditActions, targetId \in TargetIds \cup {NULL},
       fails \in BOOLEAN : LogAudit(actorId, action, targetId, fails)

SpecAudit == Init /\ [][NextAudit]_vars


(* ============================== claims ================================ *)
\* the (user, program) pairs a request may name
Pairs == UserIds \X ProgramIds

\* an Assignment row of the pair exists
Assigned(u, p) ==
    \E row \in Rows(user_programs) : row.user_id = u /\ row.program_id = p

\* Assignment(u,p).completedAt is set
Stamped(u, p) ==
    \E row \in Rows(user_programs) :
        row.user_id = u /\ row.program_id = p /\ row.completed_at # NULL

\* the ProgressEntry rows of the pair
Entries(u, p) ==
    {row \in Rows(user_progress) :
        /\ row.user_id = u
        /\ row.workout_id \in 1..Len(workouts)
        /\ workouts[row.workout_id] = p}

\* a Feedback row of the pair exists
HasFeedback(u, p) ==
    \E row \in Rows(comments) : row.user_id = u /\ row.program_id = p

\* the markWorkoutDone calls of the pair that have not returned
MarksInFlight(u, p) ==
    {r \in BagToSet(inflight) :
        /\ r.op = "mark" /\ r.user_id = u
        /\ r.workout_id \in 1..Len(workouts) /\ workouts[r.workout_id] = p}

(* ------------------------------- C1 ----------------------------------- *)
\* C1: once every markWorkoutDone of a fully assigned program has returned,
\* completedAt is set, and no markWorkoutDone writes completedAt of an
\* Assignment whose completedAt is already set.
C1_CompletedAtWrittenOnce ==
    [][ /\ \A pair \in Pairs :
             (/\ Entries(pair[1], pair[2]) # {}
              /\ \A row \in Entries(pair[1], pair[2]) : row.status = "done"
              /\ MarksInFlight(pair[1], pair[2]) = {})'
             => Stamped(pair[1], pair[2])'
        /\ \A r \in BagToSet(inflight) :
             MarkStamp(r) => ~Stamped(r.user_id, r.program_id)
      ]_vars

(* ------------------------------- C2 ----------------------------------- *)
\* the audit_logs table with one more record [actor, action, target]
Audited(actor, action, target) ==
    audit_logs (+) SetToBag({[actor_id |-> actor, action |-> action, target_id |-> target]})

\* C2: a successful changeUserRole, resetPassword or setUserActive leaves
\* exactly one new AuditRecord with the caller as actor, the affected user as
\* target and the matching action label.
C2_MutationIsAudited ==
    [][ \A t \in tokens, u \in TargetIds :
          /\ \A role \in Roles :
               (ChangeUserRole(t, u, role) /\ response'.status = 200)
               => audit_logs' = Audited(t.user_id, "role_change", u)
          /\ \A pw \in Passwords :
               (ResetPassword(t, u, pw) /\ response'.status = 200)
               => audit_logs' = Audited(t.user_id, "password_reset", u)
          /\ \A active \in BOOLEAN :
               (ToggleUser(t, u, TRUE, active) /\ response'.status = 200)
               => audit_logs' = Audited(t.user_id, "activation_toggle", u)
      ]_vars

(* ------------------------------- C3 ----------------------------------- *)
\* C3: after any sequence of createWorkout, assignProgram and markWorkoutDone
\* calls, a ProgressEntry exists for (user, workout) if and only if the user
\* has an Assignment to the workout's program.
C3_ProgressIffAssigned ==
    inflight = EmptyBag =>
        \A u \in UserIds, w \in 1..Len(workouts) :
            (\E row \in Rows(user_progress) : row.user_id = u /\ row.workout_id = w)
            <=> Assigned(u, workouts[w])

(* ------------------------------- C4 ----------------------------------- *)
\* C4: when the bulk ProgressEntry insert of an assignProgram fails, the
\* Assignment row the call inserted is rolled back: no Assignment of the pair
\* is left.
C4_FailedAssignRollsBack ==
    [][ \A r \in BagToSet(inflight) :
          (r.op = "assign" /\ r.pc = "bulk" /\ QueryFails(r))
          => ~Assigned(r.user_id, r.program_id)'
      ]_vars

(* ------------------------------- C5 ----------------------------------- *)
\* C5: an assignProgram call for a pair that already has an Assignment
\* answers Conflict (409) and adds no Assignment row and no ProgressEntry row.
C5_SecondAssignConflict ==
    [][ \A pair \in Pairs :
          (Assigned(pair[1], pair[2]) /\ AssignProgram(pair[1], pair[2]))
          => /\ response' = Respond(Request("assign", "insert", pair[1], pair[2], 0), 409,
                                    "Program already assigned")
             /\ UNCHANGED <<user_programs, user_progress, inflight>>
      ]_vars

\* a second assignProgram was answered Conflict after the first one completed
C5_Witness ==
    /\ response.op = "assign" /\ response.status = 409
    /\ Assigned(response.user_id, response.program_id)
    /\ Entries(response.user_id, response.program_id) # {}
    /\ inflight = EmptyBag

(* ------------------------------- C6 ----------------------------------- *)
\* C6: when assignProgram(u, p) answers success, every workout of p has
\* exactly one ProgressEntry row of u, all of them pending (so N rows for N
\* workouts), and the single Assignment row of (u, p) has a null completedAt.
C6_AssignInitialisesProgress ==
    (response.op = "assign" /\ response.status = 201) =>
        LET u == response.user_id
            p == response.program_id IN
        /\ \A w \in WorkoutsOf(p) :
              /\ CopiesIn([user_id |-> u, workout_id |-> w, status |-> "pending"],
                          user_progress) = 1
              /\ \A row \in Rows(user_progress) :
                    (row.user_id = u /\ row.workout_id = w) => row.status = "pending"
        /\ Cardinality(Entries(u, p)) = Cardinality(WorkoutsOf(p))
        /\ CopiesIn([user_id |-> u, program_id |-> p, completed_at |-> NULL],
                    user_programs) = 1
        /\ ~Stamped(u, p)

\* a program holding every workout was assigned successfully while another
\* handler was in flight
C6_Witness ==
    /\ response.op = "assign" /\ response.status = 201
    /\ Cardinality(WorkoutsOf(response.program_id)) = MaxWorkouts
    /\ inflight # EmptyBag

(* ------------------------------- C7 ----------------------------------- *)
\* C7: for an existing Assignment, submitFeedback while completedAt is null
\* answers NotCompleted and inserts nothing; once completedAt is set a
\* submitFeedback passes the completion check, inserts one Feedback row and
\* succeeds while the pair has no Feedback, and is answered DuplicateFeedback,
\* inserting nothing, once the pair has one.
C7_FeedbackGate ==
    [][ \A pair \in Pairs :
          LET u == pair[1]
              p == pair[2]
              atExists == Request("comment", "exists", u, p, 0)
              atInsert == Request("comment", "insert", u, p, 0) IN
          /\ (Assigned(u, p) /\ ~Stamped(u, p) /\ SubmitComment(u, p, 1))
             => /\ response' = Respond(atExists, 400, "Program not completed yet")
                /\ UNCHANGED <<comments, inflight>>
          /\ (Stamped(u, p) /\ SubmitComment(u, p, 1))
             => /\ CopiesIn(atExists, inflight') = CopiesIn(atExists, inflight) + 1
                /\ response' = NoResponse
          /\ (~HasFeedback(u, p) /\ CommentExists(atExists))
             => /\ CopiesIn(atInsert, inflight') = CopiesIn(atInsert, inflight) + 1
                /\ response' = NoResponse
          /\ (~HasFeedback(u, p) /\ CommentInsert(atInsert))
             => /\ response' = Respond(atInsert, 201, "")
                /\ comments' = comments (+) SetToBag({[user_id |-> u, program_id |-> p]})
          /\ (HasFeedback(u, p) /\ CommentExists(atExists))
             => /\ response' = Respond(atExists, 400, "Feedback already submitted")
                /\ UNCHANGED comments
                /\ CopiesIn(atExists, inflight') = CopiesIn(atExists, inflight) - 1
      ]_vars

\* a submitFeedback was answered DuplicateFeedback after an earlier one succeeded
C7_Witness ==
    /\ response.op = "comment" /\ response.status = 400
    /\ response.error = "Feedback already submitted"
    /\ HasFeedback(response.user_id, response.program_id)
    /\ Stamped(response.user_id, response.program_id)

(* ------------------------------- C8 ----------------------------------- *)
\* the step is answered Forbidden, changes no User row and writes no AuditRecord
Forbidden ==
    /\ response'.status = 403
    /\ users' = users
    /\ audit_logs' = audit_logs

\* the step writes the response of the call op on the user u
Answers(op, u) == response'.op = op /\ response'.user_id = u

\* the step is a changeUserRole, resetPassword or setUserActive call made with the token t
AdminCall(t) ==
    \E u \in TargetIds \cup {MISSING} :
        \/ Answers("role", u) /\ \E role \in Roles \cup {"", "admin"} : ChangeUserRole(t, u, role)
        \/ Answers("password", u) /\ \E pw \in Passwords : ResetPassword(t, u, pw)
        \/ Answers("toggle", u) /\ \E has \in BOOLEAN, active \in BOOLEAN :
                                      ToggleUser(t, u, has, active)

\* C8: changeUserRole, resetPassword and setUserActive called with the token
\* of a caller whose role is not super_admin answer Forbidden, change no User
\* row and write no AuditRecord, whatever their arguments.
C8_NonAdminForbidden ==
    [][ \A t \in tokens : (t.role # "super_admin" /\ ~Forbidden) => ~AdminCall(t) ]_vars

\* an administration call was answered Forbidden while a coach held a token
C8_Witness ==
    /\ response.status = 403
    /\ response.op \in {"role", "password", "toggle"}
    /\ \E t \in tokens : t.role = "coach"

(* ------------------------------- C9 ----------------------------------- *)
\* C9: the Assignment of a user to a program that has no workouts never has
\* its completedAt set.
C9_NoVacuousCompletion ==
    \A row \in Rows(user_programs) :
        WorkoutsOf(row.program_id) = {} => row.completed_at = NULL

\* a markWorkoutDone completed another program of a user who is also assigned
\* to a program without workouts
C9_Witness ==
    /\ response.op = "mark" /\ response.status = 200
    /\ Stamped(response.user_id, response.program_id)
    /\ \E row \in Rows(user_programs) :
          /\ row.user_id = response.user_id
          /\ WorkoutsOf(row.program_id) = {}

(* ------------------------------- C10 ---------------------------------- *)
\* C10: every Feedback row belongs to a pair whose Assignment exists with a
\* non-null completion timestamp.
C10_FeedbackOnlyAfterCompletion ==
    \A row \in Rows(comments) : Stamped(row.user_id, row.program_id)

\* a Feedback row was inserted while another program of the user is not completed
C10_Witness ==
    \E row \in Rows(comments) :
        \E other \in Rows(user_programs) :
            other.user_id = row.user_id /\ other.completed_at = NULL

(* ------------------------------- C11 ---------------------------------- *)
\* C11: an assignProgram whose user_id or program_id names no existing row is
\* answered NotFound (404), and no Assignment and no ProgressEntry of such a
\* user or program is ever created.
C11_AbsentRowNotFound ==
    /\ \A row \in Rows(user_programs) :
          row.user_id \in UserIds /\ row.program_id \in ProgramIds
    /\ \A row \in Rows(user_progress) : row.user_id \in UserIds
    /\ (/\ response.op = "assign"
        /\ response.user_id # MISSING
        /\ response.user_id \notin UserIds \/ response.program_id \notin ProgramIds)
       => response.status = 404

(* ------------------------------- C12 ---------------------------------- *)
\* C12: a successful setUserActive(u, false) leaves u inactive, u stays inactive
\* until a setUserActive(u, true) succeeds, and while u is inactive every login
\* of u is rejected and mints no token: with the correct password the answer
\* is "Account is deactivated" (403), with a wrong one "Invalid credentials".
C12_InactiveLoginBlocked ==
    [][ \A u \in UserIds :
          /\ (Answers("toggle", u) /\ response'.status = 200 /\ users'[u].active # FALSE)
             => \A t \in tokens : ~ToggleUser(t, u, TRUE, FALSE)
          /\ (users[u].active = FALSE /\ users'[u].active # FALSE)
             => \E t \in tokens : ToggleUser(t, u, TRUE, TRUE) /\ response'.status = 200
          /\ \A pw \in Passwords \ {MISSING} :
                (/\ users[u].active = FALSE
                 /\ Answers("login", u)
                 /\ ~(/\ tokens' = tokens
                      /\ response' =
                           IF Compare(pw, users[u].password)
                           THEN Respond(Request("login", "", u, 0, 0), 403,
                                        "Account is deactivated")
                           ELSE Respond(Request("login", "", u, 0, 0), 401,
                                        "Invalid credentials")))
                => ~Login(u, pw)
      ]_vars

\* a login with the correct password was refused because the account is inactive
C12_Witness ==
    /\ response.op = "login" /\ response.status = 403
    /\ response.user_id \in UserIds
    /\ users[response.user_id].active = FALSE
    /\ tokens = {}

(* ------------------------------- C13 ---------------------------------- *)
\* C13: in every state, a pair that has at least one ProgressEntry and whose
\* ProgressEntry rows are all done has a non-null completedAt: the status
\* update and the completion stamp of markWorkoutDone are never seen apart.
C13_StatusAndStampTogether ==
    \A pair \in Pairs :
        (/\ Entries(pair[1], pair[2]) # {}
         /\ \A row \in Entries(pair[1], pair[2]) : row.status = "done")
        => Stamped(pair[1], pair[2])

(* ------------------------------- C14 ---------------------------------- *)
\* the number of rows of the bag `table` that are in the set `matching`
Count(table, matching) == BagCardinality([row \in matching |-> CopiesIn(row, table)])

\* C14: no step leaves more than one Assignment row of a pair or more than one
\* ProgressEntry row of a (user, workout); an assignProgram that passed the
\* existence check and reaches its insert when the pair is assigned fails
\* (500) and creates no Assignment and no ProgressEntry.
C14_OneAssignmentPerPair ==
    [][ /\ \A pair \in Pairs :
             Count(user_programs', {row \in Rows(user_programs') :
                                      row.user_id = pair[1] /\ row.program_id = pair[2]}) <= 1
        /\ \A u \in UserIds, w \in WorkoutIds :
             Count(user_progress', {row \in Rows(user_progress') :
                                      row.user_id = u /\ row.workout_id = w}) <= 1
        /\ \A r \in BagToSet(inflight) :
             (Assigned(r.user_id, r.program_id) /\ AssignInsert(r))
             => /\ response' = Respond(r, 500, "Internal server error")
                /\ UNCHANGED <<user_programs, user_progress>>
                /\ inflight' = inflight (-) SetToBag({r})
      ]_vars

\* of two assignProgram calls that both passed the existence check, the second
\* to insert failed and the pair has its Assignment
C14_Witness ==
    /\ response.op = "assign" /\ response.status = 500
    /\ Assigned(response.user_id, response.program_id)
    /\ Count(user_programs, {row \in Rows(user_programs) :
                                /\ row.user_id = response.user_id
                                /\ row.program_id = response.program_id}) = 1

(* ------------------------------- C15 ---------------------------------- *)
\* C15: no step leaves more than one Feedback row of a pair; a submitFeedback
\* that passed the duplicate check and reaches its insert when the pair has a
\* Feedback fails (500) and inserts nothing.
C15_OneFeedbackPerPair ==
    [][ /\ \A pair \in Pairs :
             Count(comments', {row \in Rows(comments') :
                                 row.user_id = pair[1] /\ row.program_id = pair[2]}) <= 1
        /\ \A r \in BagToSet(inflight) :
             (HasFeedback(r.user_id, r.program_id) /\ CommentInsert(r))
             => /\ response' = Respond(r, 500, "Internal server error")
                /\ UNCHANGED comments
                /\ inflight' = inflight (-) SetToBag({r})
      ]_vars

\* of two submitFeedback calls that both passed the duplicate check, the second
\* to insert failed and the pair has its one Feedback
C15_Witness ==
    /\ response.op = "comment" /\ response.status = 500
    /\ Count(comments, {row \in Rows(comments) :
                           /\ row.user_id = response.user_id
                           /\ row.program_id = response.program_id}) = 1

(* ------------------------------- C16 ---------------------------------- *)
\* C16: no step turns a done ProgressEntry back to pending (or removes it), and
\* no step resets a non-null completedAt of an Assignment to null (or removes
\* the Assignment).
C16_ProgressIsMonotonic ==
    [][ /\ \A u \in UserIds, w \in WorkoutIds :
             (\E row \in Rows(user_progress) :
                 row.user_id = u /\ row.workout_id = w /\ row.status = "done")
             => /\ \E row \in Rows(user_progress') : row.user_id = u /\ row.workout_id = w
                /\ \A row \in Rows(user_progress') :
                      (row.user_id = u /\ row.workout_id = w) => row.status = "done"
        /\ \A pair \in Pairs :
             Stamped(pair[1], pair[2])
             => /\ Stamped(pair[1], pair[2])'
                /\ \A row \in Rows(user_programs') :
                      (row.user_id = pair[1] /\ row.program_id = pair[2])
                      => row.completed_at # NULL
      ]_vars

\* a markWorkoutDone has run its status update on an entry of a completed
\* Assignment, and is on its way to the stamp
C16_Witness ==
    \E r \in BagToSet(inflight) :
        /\ r.op = "mark" /\ r.pc = "stamp"
        /\ Stamped(r.user_id, r.program_id)
        /\ \A row \in Entries(r.user_id, r.program_id) : row.status = "done"

(* ------------------------------- C17 ---------------------------------- *)
\* C17: a logAudit call returns normally whether its insert succeeded or
\* threw: no error leaves it, what it hands back to its caller is the same in
\* both cases, no User row changes, and a failed insert leaves audit_logs as
\* it was while a successful one adds the one record.
C17_AuditFailureSwallowed ==
    [][ \A actorId \in UserIds, action \in AuditActions, targetId \in TargetIds \cup {NULL},
           fails \in BOOLEAN :
          LogAudit(actorId, action, targetId, fails)
          => /\ response' = Respond(Request("logAudit", "", targetId, 0, 0), 0, "")
             /\ users' = users
             /\ audit_logs' = IF fails THEN audit_logs
                              ELSE Audited(actorId, action, targetId)
      ]_vars

\* a logAudit call whose insert threw has returned: nothing was recorded
C17_Witness ==
    /\ response.op = "logAudit" /\ response.error = ""
    /\ audit_logs = EmptyBag

(* ------------------------------- C18 ---------------------------------- *)
\* C18: called by a super_admin, changeUserRole with no role or a role outside
\* {client, coach, super_admin} and resetPassword with no password or one
\* shorter than 6 are answered Validation (400) and leave every User row as
\* it was.
C18_InvalidInputRejected ==
    [][ \A t \in tokens, u \in TargetIds :
          t.role = "super_admin"
          => /\ (Answers("role", u) /\ ~(response'.status = 400 /\ users' = users))
                => \A role \in (Roles \cup {"", "admin"}) \ {"client", "coach", "super_admin"} :
                      ~ChangeUserRole(t, u, role)
             /\ (/\ Answers("password", u)
                 /\ ~(/\ response' = Respond(Request("password", "", u, 0, 0), 400,
                                             "Password must be at least 6 characters")
                      /\ users' = users))
                => \A pw \in {pw \in Passwords : pw = MISSING \/ pw < 6} :
                      ~ResetPassword(t, u, pw)
      ]_vars

\* a super_admin's changeUserRole with a role outside the enum was rejected
C18_Witness ==
    /\ response.op = "role" /\ response.status = 400
    /\ response.error = "Invalid role"
    /\ response.user_id \in UserIds
    /\ \E t \in tokens : t.role = "super_admin"

(* ------------------------------- C19 ---------------------------------- *)
\* C19: a changeUserRole, resetPassword or setUserActive that passed the
\* authorization gate and the validation and names a user id without a row is
\* answered NotFound (404), never success.
C19_AbsentUserNotFound ==
    (/\ response.op \in {"role", "password", "toggle"}
     /\ response.user_id # MISSING
     /\ response.user_id \notin DOMAIN users
     /\ response.status \notin {400, 401, 403})
    => response.status = 404

=============================================================================
